---- MODULE Spec2Model ----
(***************************************************************************)
(* Bounty lifecycle of GOF2BountyBot: BountyConfig construction and        *)
(* generation (bot/gameObjects/bounties/bountyConfig.py) and the Bounty    *)
(* object built from it (bot/gameObjects/bounties/bounty.py): check,       *)
(* calcRewards, escape, cancelRespawn, forceRespawn, together with the     *)
(* respawn TimedTasks the callers hand to a bounty.                        *)
(***************************************************************************)
EXTENDS Integers, Sequences, FiniteSets, TLC

(***************************************************************************)
(* Bounds of the model                                                     *)
(***************************************************************************)
MaxRouteLen == 3      \* longest caller-supplied route
MaxUser == 2          \* user ids are 1..MaxUser
MaxReward == 3        \* largest explicitly supplied reward
MaxTasks == 2         \* TimedTasks the callers may schedule
MaxCalls == 2         \* userFriendlyUse calls on one crate
MaxBounties == 2      \* bounties alive in one process

(***************************************************************************)
(* Python values                                                           *)
(***************************************************************************)
\* None is the empty tuple, any other optional value x is <<x>>
None == << >>
Some(x) == <<x>>
Val(o) == o[1]
Unchecked == -1       \* bounty.py:29-30, the value of an unchecked system
EmptyDict == << >>    \* the dict {} (a function with an empty domain)

\* dict helpers: a dict is a function, its keys are its DOMAIN
DictSet(d, k, v) == [x \in (DOMAIN d) \cup {k} |-> IF x = k THEN v ELSE d[x]]

\* list membership, "x in lst"
InList(x, lst) == \E i \in 1..Len(lst) : lst[i] = x

(***************************************************************************)
(* Static game data (bbData, cfg): small stand-ins for the catalogue       *)
(***************************************************************************)
\* bbData.builtInSystemObjs: the known systems, A - B - C in a line;
\* C has no jump gate
builtInSystemObjs == {"A", "B", "C"}
hasJumpGate(s) == s \in {"A", "B"}
SysIdx(s) == CASE s = "A" -> 1 [] s = "B" -> 2 [] s = "C" -> 3 [] OTHER -> 0
SysAt(i) == CASE i = 1 -> "A" [] i = 2 -> "B" [] OTHER -> "C"

\* bbData.bountyFactions and bbData.bountyNames (a dict faction -> names)
bountyFactions == {"terran", "vossk"}
bountyNames == [f \in bountyFactions |-> IF f = "terran" THEN {"Ann"} ELSE {"Vik"}]
rocketIcon == "rocket"
bPointsToCreditsRatio == 2

\* str.title() and str.lower() on the strings of the model
Title(s) ==
    CASE s = "a" -> "A"
      [] s = "ann" -> "Ann"
      [] s = "terran" -> "Terran"
      [] s = "vossk" -> "Vossk"
      [] s = "pirate" -> "Pirate"
      [] OTHER -> s
Lower(s) ==
    CASE s = "A" -> "a"
      [] s = "B" -> "b"
      [] s = "C" -> "c"
      [] s = "Z" -> "z"
      [] s = "Ann" -> "ann"
      [] s = "Vik" -> "vik"
      [] s = "Terran" -> "terran"
      [] s = "Vossk" -> "vossk"
      [] OTHER -> s

\* lib.pathfinding.bbAStar(start, end, graph): the cheapest path, both ends
\* included (the graph of the model is connected)
bbAStar(start, end) ==
    IF start = end THEN <<start>>
    ELSE LET a == SysIdx(start)
             b == SysIdx(end)
             n == (IF a < b THEN b - a ELSE a - b) + 1
         IN [i \in 1..n |-> SysAt(IF a < b THEN a + i - 1 ELSE a - i + 1)]


(***************************************************************************)
(* BountyConfig                                                            *)
(***************************************************************************)
\* BountyConfig.__init__: the fields a bounty reads (isPlayer, aliases,
\* wiki and ship are carried along untouched and are left out)
BountyConfig(faction, name, route, start, end, answer, checked, reward, issueTime, endTime, icon) ==
    [faction |-> Lower(faction),
     name |-> Title(name),
     route |-> [i \in 1..Len(route) |-> Title(route[i])],
     start |-> Title(start),
     end |-> Title(end),
     answer |-> Title(answer),
     checked |-> checked,
     reward |-> reward,
     issueTime |-> issueTime,
     endTime |-> endTime,
     icon |-> icon,
     generated |-> FALSE,
     builtIn |-> FALSE]

\* the registry handed to generate: owningDB.factionCanMakeBounty and
\* owningDB.bountyNameExists over a registry db = [full, names]
factionCanMakeBounty(db, f) == f \notin Val(db).full
bountyNameExists(db, n) == n \in Val(db).names

\* An outcome of (a part of) generate: exc is "none" on normal completion,
\* the exception raised, or "hang" for a retry loop that never exits;
\* cfg is the config as the call left it
Out(exc, c) == [exc |-> exc, cfg |-> c]
\* the outcomes among outs that raised or hung: they end the call
Ended(outs) == {o \in outs : o.exc # "none"}
\* the configs of the outcomes among outs with which the call goes on
Going(outs) == {o.cfg : o \in {x \in outs : x.exc = "none"}}

\* generate, lines 139-170: faction and name
GenFaction(c, db, doDBCheck) ==
    IF c.faction = ""
    THEN LET ok == {f \in bountyFactions : ~doDBCheck \/ factionCanMakeBounty(db, f)}
         IN IF ok = {}
            THEN {Out("hang", [c EXCEPT !.faction = f]) : f \in bountyFactions}
            ELSE {Out("none", [c EXCEPT !.faction = f]) : f \in ok}
    ELSE IF c.faction \notin bountyFactions THEN {Out("ValueError", c)}
    ELSE IF doDBCheck /\ ~factionCanMakeBounty(db, c.faction) THEN {Out("IndexError", c)}
    ELSE {Out("none", c)}

GenName(c, db, doDBCheck) ==
    IF c.name = ""
    THEN LET c1 == [c EXCEPT !.builtIn = TRUE]
             all == bountyNames[c.faction]
             ok == {n \in all : ~doDBCheck \/ ~bountyNameExists(db, n)}
         IN IF ok = {}
            THEN {Out("hang", [c1 EXCEPT !.name = n]) : n \in all}
            ELSE {Out("none", [c1 EXCEPT !.name = n]) : n \in ok}
    ELSE IF doDBCheck /\ bountyNameExists(db, c.name) THEN {Out("KeyError", c)}
    ELSE {Out("none", IF c.icon = "" THEN [c EXCEPT !.icon = rocketIcon] ELSE c)}

GenCriminal(c, db, noCriminal, doDBCheck) ==
    IF noCriminal
    THEN IF c.name \in DOMAIN bountyNames
         THEN {Out("none", [c EXCEPT !.builtIn = TRUE])}
         ELSE LET fac == GenFaction(c, db, doDBCheck)
              IN Ended(fac) \cup UNION {GenName(c1, db, doDBCheck) : c1 \in Going(fac)}
    ELSE IF doDBCheck /\ ~factionCanMakeBounty(db, c.faction)
         THEN {Out("IndexError", c)}
         ELSE {Out("none", c)}

\* generate, lines 172-190: the route, planned from start to end when none
\* was supplied, otherwise validated member by member
GenStart(c) ==
    IF c.start = ""
    THEN LET ok == {s \in builtInSystemObjs : s # c.end /\ hasJumpGate(s)}
         IN IF ok = {}
            THEN {Out("hang", [c EXCEPT !.start = s]) : s \in builtInSystemObjs}
            ELSE {Out("none", [c EXCEPT !.start = s]) : s \in ok}
    ELSE IF c.start \notin builtInSystemObjs THEN {Out("KeyError", c)}
    ELSE {Out("none", c)}

GenEnd(c) ==
    IF c.end = ""
    THEN LET ok == {s \in builtInSystemObjs : s # c.start /\ hasJumpGate(s)}
         IN IF ok = {}
            THEN {Out("hang", [c EXCEPT !.end = s]) : s \in builtInSystemObjs}
            ELSE {Out("none", [c EXCEPT !.end = s]) : s \in ok}
    ELSE IF c.end \notin builtInSystemObjs THEN {Out("KeyError", c)}
    ELSE {Out("none", c)}

GenRoute(c) ==
    IF c.route = << >>
    THEN LET starts == GenStart(c)
             ends == Ended(starts) \cup UNION {GenEnd(c1) : c1 \in Going(starts)}
         IN Ended(ends) \cup
            {Out("none", [c2 EXCEPT !.route = bbAStar(c2.start, c2.end)]) : c2 \in Going(ends)}
    ELSE IF \E i \in 1..Len(c.route) : c.route[i] \notin builtInSystemObjs
         THEN {Out("KeyError", c)}
         ELSE {Out("none", c)}

\* generate, lines 191-194: the answer
GenAnswer(c) ==
    IF c.answer = ""
    THEN IF c.route = << >> THEN {Out("IndexError", c)}
         ELSE {Out("none", [c EXCEPT !.answer = c.route[i]]) : i \in 1..Len(c.route)}
    ELSE IF c.answer \notin builtInSystemObjs THEN {Out("KeyError", c)}
    ELSE {Out("none", c)}

\* generate, lines 196-203: reward and timestamps; now is the clock reading
\* of the call, tz the offset of local time from UTC (both in hours)
HoursPerDay == 24

\* GenReward without the test for a negative reward
GenReward_NoTest(c, now, tz) ==
    LET c1 == IF c.reward = -1
              THEN [c EXCEPT !.reward = Len(c.route) * bPointsToCreditsRatio]
              ELSE c
        c2 == IF c1.issueTime = -1 THEN [c1 EXCEPT !.issueTime = now - tz] ELSE c1
        c3 == IF c2.endTime = -1
              THEN [c2 EXCEPT !.endTime = c2.issueTime + Len(c2.route) * HoursPerDay - tz]
              ELSE c2
    IN {Out("none", c3)}

GenReward(c, now, tz) ==
    IF c.reward # -1 /\ c.reward < 0 THEN {Out("ValueError", c)}
    ELSE LET c1 == IF c.reward = -1
                   THEN [c EXCEPT !.reward = Len(c.route) * bPointsToCreditsRatio]
                   ELSE c
             c2 == IF c1.issueTime = -1
                   THEN [c1 EXCEPT !.issueTime = now - tz]
                   ELSE c1
             c3 == IF c2.endTime = -1
                   THEN [c2 EXCEPT !.endTime =
                            c2.issueTime + Len(c2.route) * HoursPerDay - tz]
                   ELSE c2
         IN {Out("none", c3)}

\* generate, lines 205-211: the checked dict, then the generated flag
RECURSIVE FillChecked(_, _, _, _)
FillChecked(checked, route, i, forceKeepChecked) ==
    IF i > Len(route) THEN checked
    ELSE LET station == route[i]
             next == IF ~forceKeepChecked \/ station \notin DOMAIN checked
                        \/ checked = EmptyDict
                     THEN DictSet(checked, station, Unchecked)
                     ELSE checked
         IN FillChecked(next, route, i + 1, forceKeepChecked)

\* GenChecked keeping the supplied checked dict whatever forceKeepChecked is
GenChecked_Keeps(c, forceKeepChecked) ==
    {Out("none", [c EXCEPT !.checked = FillChecked(c.checked, c.route, 1, TRUE),
                              !.generated = TRUE])}

GenChecked(c, forceKeepChecked) ==
    LET start == IF ~forceKeepChecked THEN EmptyDict ELSE c.checked
    IN {Out("none", [c EXCEPT !.checked = FillChecked(start, c.route, 1, forceKeepChecked),
                              !.generated = TRUE])}

\* generate setting the generated flag before it validates
generate_FlagFirst(c, db, noCriminal, forceKeepChecked, forceNoDBCheck, now, tz) ==
    LET doDBCheck == ~forceNoDBCheck
        s1 == GenCriminal([c EXCEPT !.generated = TRUE], db, noCriminal, doDBCheck)
        s2 == Ended(s1) \cup UNION {GenRoute(c1) : c1 \in Going(s1)}
        s3 == Ended(s2) \cup UNION {GenAnswer(c1) : c1 \in Going(s2)}
        s4 == Ended(s3) \cup UNION {GenReward(c1, now, tz) : c1 \in Going(s3)}
    IN Ended(s4) \cup UNION {GenChecked(c1, forceKeepChecked) : c1 \in Going(s4)}

\* BountyConfig.generate: the set of its possible outcomes
generate(c, db, noCriminal, forceKeepChecked, forceNoDBCheck, now, tz) ==
    LET doDBCheck == ~forceNoDBCheck
        s1 == GenCriminal(c, db, noCriminal, doDBCheck)
        s2 == Ended(s1) \cup UNION {GenRoute(c1) : c1 \in Going(s1)}
        s3 == Ended(s2) \cup UNION {GenAnswer(c1) : c1 \in Going(s2)}
        s4 == Ended(s3) \cup UNION {GenReward(c1, now, tz) : c1 \in Going(s3)}
    IN Ended(s4) \cup UNION {GenChecked(c1, forceKeepChecked) : c1 \in Going(s4)}

(***************************************************************************)
(* TimedTask (bot/scheduling/timedTask.py), as the bounty uses it          *)
(***************************************************************************)
\* A task is "none" until a caller schedules it, "armed" while its timer
\* runs, and "expired" once it fired, was forced or was cancelled.
\* ts = [state, runs]: runs counts the executions of the expiry function.
\* a forceExpire that runs the expiry function of a task whatever its state
forceExpire_Again(ts, t, callExpiryFunc) ==
    [state |-> [ts.state EXCEPT ![t] = "expired"],
     runs |-> IF callExpiryFunc THEN [ts.runs EXCEPT ![t] = @ + 1] ELSE ts.runs]

forceExpire(ts, t, callExpiryFunc) ==
    IF ts.state[t] # "armed" THEN ts
    ELSE [state |-> [ts.state EXCEPT ![t] = "expired"],
          runs |-> IF callExpiryFunc
                   THEN [ts.runs EXCEPT ![t] = @ + 1]
                   ELSE ts.runs]

(***************************************************************************)
(* Bounty                                                                  *)
(***************************************************************************)
NoRet == -1           \* no value returned
Res(exc, ret, b) == [exc |-> exc, ret |-> ret, b |-> b]

\* bbData.builtInCriminalObjs[name].faction
BuiltInFaction(name) == CHOOSE f \in bountyFactions : name \in bountyNames[f]

\* Bounty.__init__; criminalObj is None or [faction, name], config is None
\* or a BountyConfig, owningDB is None or a registry
BountyNew(criminalObj, config, owningDB, dbReload, now, tz) ==
    IF ~dbReload /\ owningDB = None THEN {Res("ValueError", NoRet, None)}
    ELSE
    LET makeFresh == criminalObj = None
        cfg0 == IF config # None THEN Val(config)
                ELSE IF makeFresh
                     THEN BountyConfig("", "", << >>, "", "", "", EmptyDict, -1, -1, -1, "")
                     ELSE BountyConfig(Val(criminalObj).faction, Val(criminalObj).name, << >>,
                                       "", "", "", EmptyDict, -1, -1, -1, "")
        outs == IF cfg0.generated THEN {Out("none", cfg0)}
                ELSE generate(cfg0, owningDB, makeFresh, dbReload, dbReload, now, tz)
        build(c) ==
            IF makeFresh /\ c.builtIn /\ ~\E f \in bountyFactions : c.name \in bountyNames[f]
            THEN Res("KeyError", NoRet, None)
            ELSE Res("none", NoRet, Some(
                     [faction |-> IF ~makeFresh THEN Val(criminalObj).faction
                                  ELSE IF c.builtIn THEN BuiltInFaction(c.name)
                                  ELSE c.faction,
                      issueTime |-> c.issueTime,
                      endTime |-> c.endTime,
                      route |-> c.route,
                      reward |-> c.reward,
                      checked |-> c.checked,
                      answer |-> c.answer,
                      respawnTT |-> None]))
    IN {IF o.exc = "none" THEN build(o.cfg) ELSE Res(o.exc, NoRet, None) : o \in outs}

\* systemChecked comparing with 0 in place of the unchecked value -1
systemChecked_Zero(b, system) == b.checked[system] # 0

\* Bounty.systemChecked
systemChecked(b, system) == b.checked[system] # Unchecked

\* check without the route membership test of its first branch
check_NoRouteTest(b, system, userID) ==
    IF system \notin DOMAIN b.checked THEN Res("KeyError", NoRet, b)
    ELSE IF b.checked[system] # Unchecked THEN Res("none", 1, b)
    ELSE LET b1 == [b EXCEPT !.checked = DictSet(b.checked, system, userID)]
         IN IF b1.answer = system THEN Res("none", 3, b1) ELSE Res("none", 2, b1)

\* check recording the caller before it looks whether the system is checked
check_Overwrite(b, system, userID) ==
    IF ~InList(system, b.route) THEN Res("none", 0, b)
    ELSE LET b1 == [b EXCEPT !.checked = DictSet(b.checked, system, userID)]
         IN IF b.checked[system] # Unchecked THEN Res("none", 1, b1)
            ELSE IF b1.answer = system THEN Res("none", 3, b1) ELSE Res("none", 2, b1)

\* check answering AlreadyChecked for every route location once the answer
\* is checked
check_ClosedAfterAnswer(b, system, userID) ==
    IF ~InList(system, b.route) THEN Res("none", 0, b)
    ELSE IF system \notin DOMAIN b.checked THEN Res("KeyError", NoRet, b)
    ELSE IF b.checked[system] # Unchecked THEN Res("none", 1, b)
    ELSE IF InList(b.answer, b.route) /\ b.checked[b.answer] # Unchecked
         THEN Res("none", 1, b)
    ELSE LET b1 == [b EXCEPT !.checked = DictSet(b.checked, system, userID)]
         IN IF b1.answer = system THEN Res("none", 3, b1) ELSE Res("none", 2, b1)

\* Bounty.check: 0 not on the route, 1 already checked, 2 checked, 3 answer found
check(b, system, userID) ==
    IF ~InList(system, b.route) THEN Res("none", 0, b)
    ELSE IF system \notin DOMAIN b.checked THEN Res("KeyError", NoRet, b)
    ELSE IF systemChecked(b, system) THEN Res("none", 1, b)
    ELSE LET b1 == [b EXCEPT !.checked = DictSet(b.checked, system, userID)]
         IN IF b1.answer = system THEN Res("none", 3, b1) ELSE Res("none", 2, b1)

\* Bounty.isEscaped
isEscaped(b) == b.respawnTT = None

\* Bounty.escape
escape(b, respawnTT) ==
    IF isEscaped(b) THEN Res("ValueError", NoRet, b)
    ELSE Res("none", NoRet, [b EXCEPT !.respawnTT = Some(respawnTT)])

\* Bounty.cancelRespawn: the result and the tasks afterwards; calling
\* forceExpire on None raises AttributeError
cancelRespawn(b, ts) ==
    IF ~isEscaped(b) THEN [res |-> Res("ValueError", NoRet, b), ts |-> ts]
    ELSE IF b.respawnTT = None THEN [res |-> Res("AttributeError", NoRet, b), ts |-> ts]
    ELSE [res |-> Res("none", NoRet, [b EXCEPT !.respawnTT = None]),
          ts |-> forceExpire(ts, Val(b.respawnTT), FALSE)]

\* Bounty.forceRespawn
forceRespawn(b, ts) ==
    IF ~isEscaped(b) THEN [res |-> Res("ValueError", NoRet, b), ts |-> ts]
    ELSE IF b.respawnTT = None THEN [res |-> Res("AttributeError", NoRet, b), ts |-> ts]
    ELSE [res |-> Res("none", NoRet, [b EXCEPT !.respawnTT = None]),
          ts |-> forceExpire(ts, Val(b.respawnTT), TRUE)]

\* Bounty.calcRewards, first loop (lines 127-135): the contributors and
\* the number of checked route entries
RewardKeys(b) ==
    {b.checked[b.route[i]] : i \in {j \in 1..Len(b.route) : systemChecked(b, b.route[j])}}
CheckedSystems(b) ==
    Cardinality({i \in 1..Len(b.route) : systemChecked(b, b.route[i])})

\* Bounty.calcRewards, second loop (lines 137-144), from route entry i on
RECURSIVE AddRewards(_, _, _, _)
AddRewards(b, rewards, i, uncheckedSystems) ==
    IF i > Len(b.route) THEN rewards
    ELSE LET system == b.route[i]
             u == b.checked[system]
             share == b.reward \div Len(b.route)
             r1 == IF ~systemChecked(b, system) THEN rewards
                   ELSE IF b.answer = system
                   THEN [rewards EXCEPT ![u].checked = @ + 1,
                                        ![u].reward = @ + share * (uncheckedSystems + 1),
                                        ![u].won = TRUE]
                   ELSE [rewards EXCEPT ![u].checked = @ + 1,
                                        ![u].reward = @ + share]
         IN AddRewards(b, r1, i + 1, uncheckedSystems)

\* a calcRewards that marks every contributor as won
calcRewards_AllWon(b) ==
    LET rewards == [u \in RewardKeys(b) |-> [reward |-> 0, checked |-> 0, won |-> FALSE]]
        uncheckedSystems == Len(b.route) - CheckedSystems(b)
        r == AddRewards(b, rewards, 1, uncheckedSystems)
    IN [u \in DOMAIN r |-> [r[u] EXCEPT !.won = TRUE]]

\* Bounty.calcRewards
calcRewards(b) ==
    LET rewards == [u \in RewardKeys(b) |-> [reward |-> 0, checked |-> 0, won |-> FALSE]]
        uncheckedSystems == Len(b.route) - CheckedSystems(b)
    IN AddRewards(b, rewards, 1, uncheckedSystems)

\* a calcRewards that marks the locations it has paid out as unchecked
calcRewardsCall_Clears(b) ==
    [val |-> calcRewards(b),
     b |-> [b EXCEPT !.checked = [L \in DOMAIN b.checked |-> Unchecked]]]

\* a call of Bounty.calcRewards: the table it returns and the bounty it
\* leaves; the method assigns to the local dictionary rewards only
calcRewardsCall(b) == [val |-> calcRewards(b), b |-> b]

\* Bounty.toDict; of the criminal's dictionary only the faction is kept
toDict(b) ==
    [faction |-> b.faction, route |-> b.route, answer |-> b.answer,
     checked |-> b.checked, reward |-> b.reward, issueTime |-> b.issueTime,
     endTime |-> b.endTime, criminal |-> [faction |-> b.faction, name |-> ""]]

\* Bounty.fromDict(bounty, **kwargs); kwargs = [owningDB, dbReload], each
\* None when the keyword is not given
fromDict(d, kwargs, now, tz) ==
    LET owningDB == IF kwargs.owningDB # None THEN Val(kwargs.owningDB) ELSE None
        dbReload == IF kwargs.dbReload # None THEN Val(kwargs.dbReload) ELSE FALSE
        newCfg == BountyConfig(d.faction, "", d.route, "", "", d.answer, d.checked,
                               d.reward, d.issueTime, d.endTime, "")
    IN BountyNew(Some(d.criminal), Some(newCfg), owningDB, dbReload, now, tz)

(***************************************************************************)
(* Object identity of the checked dicts: several bounties in one process   *)
(***************************************************************************)
\* the address of the dict that is the default value of the checked
\* parameter of BountyConfig.__init__, one object for the whole process
DefaultChecked == 0

\* BountyConfig.__init__, self.checked = checked: the object passed, the
\* default object when none is passed
ConfigCheckedRef(checkedArg, fresh) ==
    IF checkedArg = None THEN DefaultChecked ELSE fresh

\* generate, lines 205-206: self.checked is a new dict unless
\* forceKeepChecked, and is then filled in place
GenCheckedRef(ref, forceKeepChecked, fresh) ==
    IF forceKeepChecked THEN ref ELSE fresh

\* the heap: dict maps the addresses in use to the dicts stored there
NextAddr(h) == Cardinality(DOMAIN h.dict)
Store(h, ref, d) ==
    [h EXCEPT !.dict = [a \in (DOMAIN h.dict) \cup {ref} |-> IF a = ref THEN d ELSE h.dict[a]]]

(***************************************************************************)
(* CrateTool: a crate in a user's inactive tools, opened through a         *)
(* confirmation menu                                                       *)
(***************************************************************************)
acceptEmoji == "accept"     \* cfg.defaultEmojis.accept
rejectEmoji == "reject"     \* cfg.defaultEmojis.reject

\* what the menu can hand back: the emojis chosen, none of them on a timeout
Confirmations == SUBSET {acceptEmoji, rejectEmoji}

Items == {"laser", "shield"}
ItemPools == {{}, {"laser"}, {"laser", "shield"}}

\* the callingBUser keyword: not given, of another type, None, or a BasedUser
CallerKwargs == {"missing", "otherType", "None", "BasedUser"}

\* userFriendlyUse up to its first await: the exception the keyword checks raise
userFriendlyUseArgs(kw) ==
    IF kw = "missing" THEN "NameError"
    ELSE IF kw # "None" /\ kw # "BasedUser" THEN "TypeError"
    ELSE "none"

\* the accept branch for a drawn item: the item is added, then the crate is
\* removed from the inactive tools.  Inventory.removeItem of a crate that is
\* no longer held either raises or removes nothing.
openCrate(cr, kw, newItem) ==
    IF kw = "None" THEN {[exc |-> "AttributeError", ret |-> None, cr |-> cr]}
    ELSE LET added == [cr EXCEPT !.inventory[newItem] = @ + 1]
         IN IF cr.held
            THEN {[exc |-> "none", ret |-> Some("success"),
                   cr |-> [added EXCEPT !.held = FALSE]]}
            ELSE {[exc |-> "ValueError", ret |-> None, cr |-> added],
                  [exc |-> "none", ret |-> Some("success"), cr |-> added]}

\* userFriendlyUse from the return of the menu on: the outcomes [exc, ret, cr]
userFriendlyUse(cr, kw, confirmation) ==
    IF rejectEmoji \in confirmation
    THEN {[exc |-> "none", ret |-> Some("cancelled"), cr |-> cr]}
    ELSE IF acceptEmoji \in confirmation
    THEN IF cr.itemPool = {}
         THEN {[exc |-> "IndexError", ret |-> None, cr |-> cr]}
         ELSE UNION {openCrate(cr, kw, newItem) : newItem \in cr.itemPool}
    ELSE {[exc |-> "none", ret |-> None, cr |-> cr]}

(***************************************************************************)
(* The state machine: one bounty from construction on, and the respawn     *)
(* tasks of its callers                                                    *)
(***************************************************************************)
VARIABLES
    phase,      \* "new" before Bounty(...), then "live", or "failed" if it raised
    args,       \* the arguments of the pending Bounty(...) call
    bounty,     \* the Bounty object
    ts,         \* the TimedTasks: [state, runs]
    last,       \* the latest call: [op, system, user, task, flags, ret, val, exc]
    crate,      \* the crate: [itemPool, held, inventory, calls]
    heap        \* the checked dicts by address, and the bounties holding them

vars == <<phase, args, bounty, ts, last, crate, heap>>

Users == 1..MaxUser
Tasks == 1..MaxTasks
Clock == {48}         \* clock readings (hours) at construction
TzOffsets == {0}      \* offsets of local time from UTC (hours)

\* names as callers type them: "a" is title-cased to "A", "Z" is unknown
RawSystems == {"a", "B", "Z"}
RawRoutes == UNION {[1..k -> RawSystems] : k \in 0..MaxRouteLen}
\* the supplied routes of the lifecycle specification
LifeRoutes == {<<"a", "B">>, <<"B", "a", "B">>, <<"C", "B", "a">>, <<"B", "Z">>}
EmptyDB == Some([full |-> {}, names |-> {}])
Registries == {EmptyDB, Some([full |-> {"vossk"}, names |-> {"Vik"}])}

Args(criminalObj, config, owningDB, dbReload, now, tz) ==
    [criminalObj |-> criminalObj, config |-> config, owningDB |-> owningDB,
     dbReload |-> dbReload, now |-> now, tz |-> tz]

\* Constructions of the lifecycle specification: a random bounty, a bounty
\* on a supplied route, a player bounty, and a bounty reloaded from file
LifeArgs ==
    {Args(None, None, db, FALSE, now, tz) :
        db \in Registries \cup {None}, now \in Clock, tz \in TzOffsets}
    \cup
    {Args(None, Some(BountyConfig(f, "", r, "", "", "", EmptyDict, -1, -1, -1, "")),
          EmptyDB, FALSE, now, tz) :
        f \in {"Terran", "pirate"}, r \in LifeRoutes, now \in Clock, tz \in TzOffsets}
    \cup
    {Args(Some([faction |-> "vossk", name |-> "Zed"]),
          Some(BountyConfig("vossk", "", r, "", "", "", ck, -1, -1, -1, "")),
          db, TRUE, now, tz) :
        r \in {<<"A", "B">>}, ck \in {EmptyDict, [x \in {"A"} |-> 1]},
        db \in Registries \cup {None}, now \in Clock, tz \in TzOffsets}

\* Constructions of the reward specification: supplied or planned routes,
\* supplied or random answers, supplied or default rewards
RewardArgs ==
    {Args(None, Some(BountyConfig("terran", "ann", r, "", "", a, EmptyDict, rw, -1, -1, "")),
          EmptyDB, FALSE, now, tz) :
        r \in RawRoutes \ {<< >>}, a \in {"", "a", "B", "C", "Z"}, rw \in -2..MaxReward,
        now \in Clock, tz \in TzOffsets}
    \cup
    {Args(None, Some(BountyConfig("terran", "ann", << >>, s, e, "", EmptyDict, rw, -1, -1, "")),
          EmptyDB, FALSE, now, tz) :
        s \in {"", "A", "C", "Z"}, e \in {"", "a", "C"}, rw \in {-1, MaxReward},
        now \in Clock, tz \in TzOffsets}

\* Configs of the generation specification. Local time is between 12 hours
\* behind and 14 hours ahead of UTC.
GenTzOffsets == {-12, 0, 14}
FullDB == Some([full |-> bountyFactions, names |-> {}])
NamesDB == Some([full |-> {}, names |-> {"Ann"}])
StrayChecked == {EmptyDict, [x \in {"A"} |-> 1], [x \in {"C"} |-> 1]}
\* fresh bounties against registries with and without room
GenArgsCriminal ==
    {Args(None, Some(BountyConfig(f, n, <<"a", "B">>, "", "", "", EmptyDict, -1, -1, -1, "")),
          db, FALSE, now, 0) :
        f \in {"", "terran", "pirate"}, n \in {"", "ann"},
        db \in {EmptyDB, FullDB, NamesDB}, now \in Clock}
\* supplied and planned routes, supplied and random answers
GenArgsRoute ==
    {Args(None, Some(BountyConfig("terran", "ann", r, "", e, a, EmptyDict, -1, -1, -1, "")),
          EmptyDB, FALSE, now, 0) :
        r \in {<< >>, <<"a", "B">>, <<"B", "Z">>}, e \in {"", "C"},
        a \in {"", "a", "C", "Z"}, now \in Clock}
\* supplied and default rewards and timestamps
GenArgsReward ==
    {Args(None, Some(BountyConfig("terran", "ann", <<"a">>, "", "", "", EmptyDict, rw, it, et, "")),
          EmptyDB, FALSE, now, tz) :
        rw \in {-2, -1, 0, MaxReward}, it \in {-1, 60}, et \in {-1, 50, 90},
        now \in Clock, tz \in GenTzOffsets}
\* bounties of a known criminal reloaded with a saved checked dict
GenArgsReload ==
    {Args(Some([faction |-> "vossk", name |-> "Zed"]),
          Some(BountyConfig("vossk", "", <<"A", "B">>, "", "", "B", ck, MaxReward, 60, 90, "")),
          db, TRUE, now, 0) :
        ck \in StrayChecked, db \in {None, FullDB}, now \in Clock}
\* routes to plan between supplied and drawn endpoints
GenArgsEnds ==
    {Args(None, Some(BountyConfig("terran", "ann", << >>, s, e, "", EmptyDict, -1, -1, -1, "")),
          EmptyDB, FALSE, now, 0) :
        s \in {"", "A", "C", "Z"}, e \in {"", "a", "C"}, now \in Clock}
GenArgs ==
    GenArgsCriminal \cup GenArgsRoute \cup GenArgsReward \cup GenArgsReload \cup GenArgsEnds

NoCall == [op |-> "none", system |-> "", user |-> 0, task |-> 0, flags |-> None,
           ret |-> NoRet, val |-> None, exc |-> "none"]
Call(op, system, user, task, r) ==
    [op |-> op, system |-> system, user |-> user, task |-> task, flags |-> None,
     ret |-> r.ret, val |-> None, exc |-> r.exc]

BountyIds == 1..MaxBounties
\* a process in which no bounty was built: the default dict is still empty
NoHeap == [dict |-> [a \in {DefaultChecked} |-> EmptyDict],
           bounties |-> [i \in BountyIds |-> None]]

CrateCalls == 1..MaxCalls
NoCrateCall == [pc |-> "idle", kw |-> "missing", ret |-> None, exc |-> "none"]
Crate(itemPool) ==
    [itemPool |-> itemPool, held |-> TRUE, inventory |-> [i \in Items |-> 0],
     calls |-> [c \in CrateCalls |-> NoCrateCall]]

InitWith(argSet) ==
    /\ phase = "new"
    /\ args \in {Some(a) : a \in argSet}
    /\ bounty = None
    /\ ts = [state |-> [t \in Tasks |-> "none"], runs |-> [t \in Tasks |-> 0]]
    /\ last = NoCall
    /\ crate = Crate({})
    /\ heap = NoHeap

Init == InitWith(LifeArgs)
InitGen == InitWith(GenArgs)
InitRewards == InitWith(RewardArgs)

\* Bounty(criminalObj, config, owningDB, dbReload)
Construct ==
    /\ phase = "new"
    /\ \E r \in BountyNew(Val(args).criminalObj, Val(args).config, Val(args).owningDB,
                           Val(args).dbReload, Val(args).now, Val(args).tz) :
          /\ phase' = IF r.exc = "none" THEN "live" ELSE "failed"
          /\ bounty' = r.b
          /\ last' = Call("Bounty", "", 0, 0, r)
    /\ args' = None
    /\ UNCHANGED <<ts, crate, heap>>

\* bounty.check(system, userID)
Check(system, userID) ==
    /\ phase = "live"
    /\ LET r == check(Val(bounty), system, userID)
       IN /\ bounty' = Some(r.b)
          /\ last' = Call("check", system, userID, 0, r)
    /\ UNCHANGED <<phase, args, ts, crate, heap>>

\* bounty.escape(t), t a TimedTask the caller created
Escape(t) ==
    /\ phase = "live"
    /\ ts.state[t] # "none"
    /\ LET r == escape(Val(bounty), t)
       IN /\ bounty' = Some(r.b)
          /\ last' = Call("escape", "", 0, t, r)
    /\ UNCHANGED <<phase, args, ts, crate, heap>>

\* bounty.cancelRespawn()
CancelRespawn ==
    /\ phase = "live"
    /\ LET r == cancelRespawn(Val(bounty), ts)
       IN /\ bounty' = Some(r.res.b)
          /\ ts' = r.ts
          /\ last' = Call("cancelRespawn", "", 0, 0, r.res)
    /\ UNCHANGED <<phase, args, crate, heap>>

\* bounty.forceRespawn()
ForceRespawn ==
    /\ phase = "live"
    /\ LET r == forceRespawn(Val(bounty), ts)
       IN /\ bounty' = Some(r.res.b)
          /\ ts' = r.ts
          /\ last' = Call("forceRespawn", "", 0, 0, r.res)
    /\ UNCHANGED <<phase, args, crate, heap>>

\* bounty.calcRewards()
CalcRewards ==
    /\ phase = "live"
    /\ LET r == calcRewardsCall(Val(bounty))
       IN /\ bounty' = Some(r.b)
          /\ last' = [Call("calcRewards", "", 0, 0, Res("none", NoRet, r.b))
                         EXCEPT !.val = Some(r.val)]
    /\ UNCHANGED <<phase, args, ts, crate, heap>>

\* a caller creates and schedules the next TimedTask
Schedule(t) ==
    /\ phase = "live"
    /\ ts.state[t] = "none"
    /\ \A t2 \in Tasks : t2 < t => ts.state[t2] # "none"
    /\ ts' = [ts EXCEPT !.state[t] = "armed"]
    /\ UNCHANGED <<phase, args, bounty, last, crate, heap>>

\* the timer of an armed task runs out: its expiry function is called
Expire(t) ==
    /\ phase = "live"
    /\ ts.state[t] = "armed"
    /\ ts' = forceExpire(ts, t, TRUE)
    /\ UNCHANGED <<phase, args, bounty, last, crate, heap>>

\* config.generate(owningDB, noCriminal, forceKeepChecked, forceNoDBCheck),
\* called by the owner of the config before it constructs the bounty; a
\* call that hangs in a retry loop never returns
Generate(noCriminal, forceKeepChecked, forceNoDBCheck) ==
    /\ phase = "new"
    /\ Val(args).config # None
    /\ forceNoDBCheck \/ Val(args).owningDB # None
    /\ \E o \in generate(Val(Val(args).config), Val(args).owningDB, noCriminal,
                          forceKeepChecked, forceNoDBCheck, Val(args).now, Val(args).tz) :
          /\ args' = Some([Val(args) EXCEPT !.config = Some(o.cfg)])
          /\ phase' = IF o.exc = "hang" THEN "hung" ELSE "new"
          /\ last' = [Call("generate", "", 0, 0, Res(o.exc, NoRet, None))
                         EXCEPT !.flags = Some(<<noCriminal, forceKeepChecked, forceNoDBCheck>>)]
    /\ UNCHANGED <<bounty, ts, crate, heap>>

\* Bounty.fromDict(bounty.toDict(), **kwargs): the reconstructed bounty is
\* the value of the call
FromDict(kwargs) ==
    /\ phase = "live"
    /\ \E now \in Clock, tz \in TzOffsets :
          \E r \in fromDict(toDict(Val(bounty)), kwargs, now, tz) :
              last' = [Call("fromDict", "", 0, 0, r)
                          EXCEPT !.val = r.b, !.flags = Some(kwargs)]
    /\ UNCHANGED <<phase, args, bounty, ts, crate, heap>>

\* a holder of the handle calls t.forceExpire(callExpiryFunc) itself; with
\* callExpiryFunc false this is the cancellation of the task
ForceExpireTask(t, callExpiryFunc) ==
    /\ phase = "live"
    /\ ts.state[t] # "none"
    /\ ts' = forceExpire(ts, t, callExpiryFunc)
    /\ last' = [Call("forceExpire", "", 0, t, Res("none", NoRet, bounty))
                   EXCEPT !.flags = Some(<<callExpiryFunc>>)]
    /\ UNCHANGED <<phase, args, bounty, crate, heap>>

CheckSystems == builtInSystemObjs \cup {"a", "Z"}

NextCheck ==
    \/ Construct
    \/ \E system \in CheckSystems, userID \in Users : Check(system, userID)

Next ==
    \/ Construct
    \/ \E system \in CheckSystems, userID \in Users : Check(system, userID)
    \/ \E t \in Tasks : Escape(t)
    \/ CancelRespawn
    \/ ForceRespawn
    \/ CalcRewards
    \/ \E t \in Tasks : Schedule(t)
    \/ \E t \in Tasks : Expire(t)

\* generation by the owner of the config or by the constructor, checks,
\* and reconstruction from the saved form
Kwargs == [owningDB : {None, Some(EmptyDB), Some(FullDB)}, dbReload : {None, Some(FALSE), Some(TRUE)}]
NextGen ==
    \/ \E noCriminal, forceKeepChecked, forceNoDBCheck \in BOOLEAN :
          Generate(noCriminal, forceKeepChecked, forceNoDBCheck)
    \/ Construct
    \/ \E system \in CheckSystems, userID \in Users : Check(system, userID)
    \/ \E kwargs \in Kwargs : FromDict(kwargs)

\* the respawn tasks of one bounty: scheduled, handed to the bounty, fired
\* by their timer, cancelled and forced by the bounty and by other holders
TaskArgs == {Args(None, None, db, FALSE, now, tz) :
                db \in Registries, now \in Clock, tz \in TzOffsets}
InitTasks == InitWith(TaskArgs)
NextTasks ==
    \/ Construct
    \/ \E t \in Tasks : Escape(t)
    \/ CancelRespawn
    \/ ForceRespawn
    \/ \E t \in Tasks : Schedule(t)
    \/ \E t \in Tasks : Expire(t)
    \/ \E t \in Tasks, callExpiryFunc \in BOOLEAN : ForceExpireTask(t, callExpiryFunc)

\* a call of userFriendlyUse on the crate, up to its confirmation menu
UseCrate(c, kw) ==
    /\ crate.calls[c].pc = "idle"
    /\ crate.held
    /\ LET exc == userFriendlyUseArgs(kw)
       IN crate' = [crate EXCEPT !.calls[c] =
                       [pc |-> IF exc = "none" THEN "menu" ELSE "done",
                        kw |-> kw, ret |-> None, exc |-> exc]]
    /\ UNCHANGED <<phase, args, bounty, ts, last, heap>>

\* the menu of a suspended call returns and the call runs to its end
MenuDone(c, confirmation) ==
    /\ crate.calls[c].pc = "menu"
    /\ \E r \in userFriendlyUse(crate, crate.calls[c].kw, confirmation) :
          crate' = [r.cr EXCEPT !.calls[c] =
                       [pc |-> "done", kw |-> crate.calls[c].kw,
                        ret |-> r.ret, exc |-> r.exc]]
    /\ UNCHANGED <<phase, args, bounty, ts, last, heap>>

\* one crate held by one user, and the calls that open it
InitCrate ==
    /\ phase = "new"
    /\ args \in {Some(a) : a \in TaskArgs}
    /\ bounty = None
    /\ ts = [state |-> [t \in Tasks |-> "none"], runs |-> [t \in Tasks |-> 0]]
    /\ last = NoCall
    /\ crate \in {Crate(itemPool) : itemPool \in ItemPools}
    /\ heap = NoHeap
NextCrate ==
    \/ \E c \in CrateCalls, kw \in CallerKwargs : UseCrate(c, kw)
    \/ \E c \in CrateCalls, confirmation \in Confirmations : MenuDone(c, confirmation)

\* the configs of the sharing specification: criminal and route supplied,
\* the checked argument given or left to its default
ShareRoutes == {<<"a", "B">>, <<"B", "C">>}
ShareChecked == {None, Some(EmptyDict), Some([x \in {"A", "B"} |-> Unchecked])}

\* bounty i as its holder sees it: checked is read through its address
BountyAt(i) ==
    LET o == Val(heap.bounties[i]) IN [o.b EXCEPT !.checked = heap.dict[o.ref]]

\* the dbReload keyword as fromDict reads it
dbReloadOf(kwargs) == IF kwargs.dbReload # None THEN Val(kwargs.dbReload) ELSE FALSE

\* Bounty(criminalObj, BountyConfig(..., checked=checkedArg), owningDB, dbReload):
\* the config holds the dict passed, or the default dict; generate keeps
\* that object or makes a new one and fills it; the bounty holds the
\* config's object.  A construction that raises leaves no bounty.
NewBounty(i, route, answer, checkedArg, dbReload) ==
    /\ heap.bounties[i] = None
    /\ LET a0 == ConfigCheckedRef(checkedArg, NextAddr(heap))
           h0 == IF checkedArg = None THEN heap ELSE Store(heap, a0, Val(checkedArg))
           config == BountyConfig("terran", "ann", route, "", "", answer, h0.dict[a0],
                                  MaxReward, -1, -1, "")
       IN \E now \in Clock, tz \in TzOffsets :
          \E r \in BountyNew(Some([faction |-> "terran", name |-> "Ann"]), Some(config),
                             EmptyDB, dbReload, now, tz) :
              /\ r.exc = "none"
              /\ LET ref == GenCheckedRef(a0, dbReload, NextAddr(h0))
                     h1 == Store(h0, ref, Val(r.b).checked)
                 IN heap' = [h1 EXCEPT !.bounties[i] =
                                Some([b |-> Val(r.b), ref |-> ref, keep |-> dbReload])]
    /\ UNCHANGED <<phase, args, bounty, ts, last, crate>>

\* bounty j = Bounty.fromDict(bounty i .toDict(), **kwargs): toDict hands out
\* the checked dict itself and fromDict passes it to the new config
ReloadBounty(i, j, kwargs) ==
    /\ i # j
    /\ heap.bounties[i] # None
    /\ heap.bounties[j] = None
    /\ LET a0 == Val(heap.bounties[i]).ref
       IN \E now \in Clock, tz \in TzOffsets :
          \E r \in fromDict(toDict(BountyAt(i)), kwargs, now, tz) :
              /\ r.exc = "none"
              /\ LET ref == GenCheckedRef(a0, dbReloadOf(kwargs), NextAddr(heap))
                     h1 == Store(heap, ref, Val(r.b).checked)
                 IN heap' = [h1 EXCEPT !.bounties[j] =
                                Some([b |-> Val(r.b), ref |-> ref, keep |-> dbReloadOf(kwargs)])]
    /\ UNCHANGED <<phase, args, bounty, ts, last, crate>>

\* bounty i .check(system, userID): the write goes to the dict at its address
CheckOn(i, system, userID) ==
    /\ heap.bounties[i] # None
    /\ LET r == check(BountyAt(i), system, userID)
       IN heap' = Store(heap, Val(heap.bounties[i]).ref, r.b.checked)
    /\ UNCHANGED <<phase, args, bounty, ts, last, crate>>

\* several bounties of one process: built, reloaded from one another, checked
InitShare == InitWith(TaskArgs)
NextShare ==
    \/ \E i \in BountyIds, route \in ShareRoutes, answer \in {"B"},
          checkedArg \in ShareChecked, dbReload \in BOOLEAN :
          NewBounty(i, route, answer, checkedArg, dbReload)
    \/ \E i, j \in BountyIds, kwargs \in Kwargs : ReloadBounty(i, j, kwargs)
    \/ \E i \in BountyIds, system \in CheckSystems, userID \in Users : CheckOn(i, system, userID)

Spec == Init /\ [][Next]_vars
SpecShare == InitShare /\ [][NextShare]_vars
SpecCrate == InitCrate /\ [][NextCrate]_vars
SpecTasks == InitTasks /\ [][NextTasks]_vars
SpecGen == InitGen /\ [][NextGen]_vars
SpecRewards == InitRewards /\ [][NextCheck]_vars

(***************************************************************************)
(* Properties                                                              *)
(***************************************************************************)
Live == phase = "live"
B == Val(bounty)
HoldsTask(b) == b.respawnTT # None
\* the step is a call bounty.check(L, u)
CheckStep(L, u) == last'.op = "check" /\ L = last'.system /\ u = last'.user /\ Check(L, u)
\* the arguments of the check call of a step
CheckArgs == {<<last'.system, last'.user>>}

\* C1: the first check of an unchecked route location returns 2 (Checked)
\* or 3 (AnswerFound) and leaves it checked; a check of a location that is
\* already checked returns 1 (AlreadyChecked) and leaves the checked-map as
\* it was; a checked location stays checked, so every later check is such.
C1_CheckIdempotent ==
    [][/\ \A a \in CheckArgs : LET L == a[1]  u == a[2] IN
            (CheckStep(L, u) /\ InList(L, B.route)) =>
                IF B.checked[L] = Unchecked
                THEN /\ last'.exc = "none"
                     /\ last'.ret \in {2, 3}
                     /\ Val(bounty').checked[L] # Unchecked
                ELSE /\ last'.exc = "none"
                     /\ last'.ret = 1
                     /\ Val(bounty').checked = B.checked
       /\ Live => \A L \in DOMAIN B.checked :
            B.checked[L] # Unchecked => Val(bounty').checked[L] # Unchecked
      ]_vars

\* a second check of a route location was made and answered AlreadyChecked
C1_Witness ==
    /\ Live
    /\ last.op = "check" /\ last.ret = 1
    /\ InList(last.system, B.route)
    /\ B.checked[last.system] # Unchecked

\* C2: a check of a location that is not on the route returns 0
\* (NotOnRoute) and changes nothing of the bounty: checked-map, route,
\* answer, reward and respawn task all stay as they were.
C2_NotOnRouteFrame ==
    [][\A a \in CheckArgs : LET L == a[1]  u == a[2] IN
          (CheckStep(L, u) /\ ~InList(L, B.route)) =>
              /\ last'.exc = "none"
              /\ last'.ret = 0
              /\ bounty' = bounty
              /\ ts' = ts
      ]_vars

\* a check of a known system off the route was made on a bounty of which
\* some location is already checked
C2_Witness ==
    /\ Live
    /\ last.op = "check" /\ last.ret = 0
    /\ last.system \in builtInSystemObjs
    /\ \E L \in DOMAIN B.checked : B.checked[L] # Unchecked

\* C3: among the checks of one route location by different contributors,
\* in whatever order they run, a call gets 2 or 3 exactly when the location
\* was unchecked, and then the checked-map records that caller; every other
\* call gets 1; the recorded contributor never changes afterwards.
C3_FirstCheckerOwns ==
    [][/\ \A a \in CheckArgs : LET L == a[1]  u == a[2] IN
            (CheckStep(L, u) /\ InList(L, B.route)) =>
                /\ (last'.ret \in {2, 3}) <=> (B.checked[L] = Unchecked)
                /\ (last'.ret = 1) <=> (B.checked[L] # Unchecked)
                /\ last'.ret \in {2, 3} => Val(bounty').checked[L] = u
       /\ Live => \A L \in DOMAIN B.checked :
            B.checked[L] # Unchecked => Val(bounty').checked[L] = B.checked[L]
      ]_vars

\* a contributor other than the owner has checked an owned location
C3_Witness ==
    /\ Live
    /\ last.op = "check" /\ last.ret = 1
    /\ InList(last.system, B.route)
    /\ B.checked[last.system] \in Users \ {last.user}

\* C4: escape(task) on a bounty that holds no respawn task succeeds and
\* leaves the bounty holding exactly that task.
C4_EscapeAttaches ==
    [][\A t \in Tasks :
          (Escape(t) /\ last'.task = t /\ ~HoldsTask(B)) =>
              /\ last'.exc = "none"
              /\ Val(bounty').respawnTT = Some(t)
      ]_vars

\* C5: escape(task2) on a bounty that already holds a respawn task (the one
\* a preceding escape call left it with) raises ValueError, and the bounty
\* still holds that task, which was neither cancelled, fired nor replaced.
C5_SecondEscapeRejected ==
    [][\A t2 \in Tasks :
          (last.op = "escape" /\ Escape(t2) /\ last'.task = t2) =>
              /\ last'.exc = "ValueError"
              /\ HoldsTask(Val(bounty'))
              /\ Val(bounty').respawnTT = B.respawnTT
              /\ ts' = ts
      ]_vars

\* C6: in every state of a constructed bounty, isEscaped() is true exactly
\* when the bounty holds a respawn task.
C6_EscapedIffTask == Live => (isEscaped(B) <=> HoldsTask(B))

\* C7: cancelRespawn() on a bounty holding a respawn task (the one the
\* preceding escape call handed over) succeeds, leaves that task expired
\* without having run its expiry function, and the bounty holds no task.
C7_CancelRespawn ==
    [][(last.op = "escape" /\ CancelRespawn) =>
          /\ last'.exc = "none"
          /\ ts'.state[last.task] = "expired"
          /\ ts'.runs = ts.runs
          /\ ~HoldsTask(Val(bounty'))
      ]_vars

\* C8: forceRespawn() on a bounty holding an armed respawn task (the one
\* the preceding escape call handed over) runs the expiry function of that
\* task exactly once before it returns, and the bounty holds no task.
C8_ForceRespawn ==
    [][(last.op = "escape" /\ ts.state[last.task] = "armed" /\ ForceRespawn) =>
          /\ last'.exc = "none"
          /\ ts'.state[last.task] = "expired"
          /\ ts'.runs = [ts.runs EXCEPT ![last.task] = @ + 1]
          /\ ~HoldsTask(Val(bounty'))
      ]_vars

\* C9: cancelRespawn() and forceRespawn() on a bounty that holds no respawn
\* task raise the precondition error ValueError and leave the bounty and
\* every task as they were.
C9_NotEscapedRejected ==
    [][((CancelRespawn \/ ForceRespawn) /\ ~HoldsTask(B)) =>
          /\ last'.exc = "ValueError"
          /\ bounty' = bounty
          /\ ts' = ts
      ]_vars

\* the sum of the reward fields of a calcRewards result
RECURSIVE SumRewards(_)
SumRewards(rewards) ==
    IF DOMAIN rewards = {} THEN 0
    ELSE LET u == CHOOSE x \in DOMAIN rewards : TRUE
         IN rewards[u].reward
            + SumRewards([x \in (DOMAIN rewards) \ {u} |-> rewards[x]])

\* C10: for every constructed bounty and after any checks, the rewards of
\* calcRewards() add up to at most the reward pool of the bounty.
C10_RewardsWithinPool == Live => SumRewards(calcRewards(B)) <= B.reward

\* the reward table the data model prescribes: one entry per contributor
\* recorded for a checked route location, counting each location once
RouteLocations(b) == {b.route[i] : i \in 1..Len(b.route)}
CheckedLocations(b) == {L \in RouteLocations(b) : b.checked[L] # Unchecked}
ReferenceRewards(b) ==
    LET share == b.reward \div Len(b.route)
        uncheckedCount == Cardinality(RouteLocations(b) \ CheckedLocations(b))
        Mine(u) == {L \in CheckedLocations(b) : b.checked[L] = u}
        Won(u) == b.answer \in Mine(u)
    IN [u \in {b.checked[L] : L \in CheckedLocations(b)} |->
           [reward |-> share * (Cardinality(Mine(u) \ {b.answer})
                                + IF Won(u) THEN uncheckedCount + 1 ELSE 0),
            checked |-> Cardinality(Mine(u)),
            won |-> Won(u)]]

\* C11: for every constructed bounty and after any checks, calcRewards()
\* returns the reference table: its keys are the contributors recorded for
\* a checked route location, 'checked' is the number of route locations
\* the contributor checked, 'reward' is floor(reward / len(route)) for each
\* of them that is not the answer plus that share times (unchecked
\* locations + 1) for the answer, and 'won' marks the checker of the answer.
C11_RewardsReference == Live => calcRewards(B) = ReferenceRewards(B)

\* companion property: on routes that name no system twice the code and
\* the reference table agree
NoRepeats(route) == \A i, j \in 1..Len(route) : route[i] = route[j] => i = j
RewardsReferenceNoRepeats ==
    (Live /\ NoRepeats(B.route)) => calcRewards(B) = ReferenceRewards(B)

GenCfg == Val(Val(args).config)
Generated == phase = "new" /\ last.op = "generate" /\ last.exc = "none"
GenRaised == phase = "new" /\ last.op = "generate" /\ last.exc # "none"

\* C13: after every generate call that returns, whether the answer was
\* supplied or drawn and the route supplied or planned, the answer of the
\* config is a member of its route.
C13_AnswerOnRoute == Generated => InList(GenCfg.answer, GenCfg.route)

\* companion property: an answer that generate draws itself is on the route
AnswerOnRouteWhenDrawn ==
    [][\A nc, fk, fn \in BOOLEAN :
          (Generate(nc, fk, fn) /\ GenCfg.answer = "" /\ last'.exc = "none") =>
              InList(Val(Val(args').config).answer, Val(Val(args').config).route)
      ]_vars

\* C14: for every bounty built from a generated config, fresh or reloaded,
\* and after any checks, the keys of the checked-map are exactly the
\* locations of the route.
C14_CheckedKeysAreRoute == Live => DOMAIN B.checked = RouteLocations(B)

\* companion property: after a generate call that does not keep the
\* supplied checked dict the keys are exactly the route locations
CheckedKeysWhenNotKept ==
    (Generated /\ ~Val(last.flags)[2]) =>
        DOMAIN GenCfg.checked = {GenCfg.route[i] : i \in 1..Len(GenCfg.route)}

\* C15: after every generate call that returns, whether issueTime and
\* endTime were supplied or defaulted, endTime is later than issueTime.
C15_EndAfterIssue == Generated => GenCfg.endTime > GenCfg.issueTime

\* companion property: an end time that generate computes itself is later
\* than the issue time
EndAfterIssueWhenDefaulted ==
    [][\A nc, fk, fn \in BOOLEAN :
          (Generate(nc, fk, fn) /\ GenCfg.endTime = -1 /\ last'.exc = "none") =>
              Val(Val(args').config).endTime > Val(Val(args').config).issueTime
      ]_vars

\* the config after the step, and the steps that are a generate call
GenCfgNext == Val(Val(args').config)
\* the flags of the generate call of a step
GenCalls == IF last'.op = "generate" THEN {Val(last'.flags)} ELSE {}
GenerateStep(fl) == Generate(fl[1], fl[2], fl[3])
\* the call would return if the reward of the config were 0
ValidButReward(fl) ==
    \E o \in generate([GenCfg EXCEPT !.reward = 0], Val(args).owningDB, fl[1], fl[2], fl[3],
                      Val(args).now, Val(args).tz) : o.exc = "none"

\* C16 as stated: generate does not return on a config with a negative
\* reward, -1 included: it raises (ValueError when nothing else is wrong
\* with the config) and leaves the reward as it was supplied.
C16_NegativeRewardRejected ==
    [][\A fl \in GenCalls :
          (GenerateStep(fl) /\ GenCfg.reward < 0) =>
              /\ last'.exc # "none"
              /\ ValidButReward(fl) => last'.exc = "ValueError"
              /\ GenCfgNext.reward = GenCfg.reward
      ]_vars

\* C16, amended: generate does not return on a config with a reward below
\* -1: it raises (ValueError when nothing else is wrong with the config)
\* and leaves the reward as it was supplied; a reward of -1 stands for
\* "not supplied" and a call that returns has replaced it by
\* len(route) * bPointsToCreditsRatio.
C16_RewardBelowDefaultRejected ==
    [][\A fl \in GenCalls :
          /\ (GenerateStep(fl) /\ GenCfg.reward < -1) =>
                /\ last'.exc # "none"
                /\ ValidButReward(fl) => last'.exc = "ValueError"
                /\ GenCfgNext.reward = GenCfg.reward
          /\ (GenerateStep(fl) /\ GenCfg.reward = -1 /\ last'.exc = "none") =>
                GenCfgNext.reward = Len(GenCfgNext.route) * bPointsToCreditsRatio
      ]_vars

\* generate raised ValueError on a config whose only fault is its reward
\* of -2
C16_Witness ==
    /\ GenRaised
    /\ last.exc = "ValueError"
    /\ GenCfg.reward < -1
    /\ GenCfg.faction \in bountyFactions

\* C17: a generate call on a config that is not yet generated leaves the
\* generated flag false whenever it raises (or hangs), and leaves it true
\* exactly when the call returns, that is when every validation passed.
C17_GeneratedOnlyOnSuccess ==
    [][\A fl \in GenCalls :
          (GenerateStep(fl) /\ ~GenCfg.generated) =>
              /\ last'.exc # "none" => ~GenCfgNext.generated
              /\ GenCfgNext.generated <=> last'.exc = "none"
      ]_vars

\* generate raised KeyError on a config after it had passed the checks of
\* faction and name
C17_Witness ==
    /\ GenRaised
    /\ last.exc = "KeyError"
    /\ ~GenCfg.generated
    /\ GenCfg.faction \in bountyFactions /\ GenCfg.name # ""

\* C18: a generate call on a config whose generated flag is already true
\* is rejected: it raises, and the config, its checked dict included, is
\* as it was.
C18_SecondGenerateRejected ==
    [][\A fl \in GenCalls :
          (GenerateStep(fl) /\ GenCfg.generated) =>
              /\ last'.exc \notin {"none", "hang"}
              /\ GenCfgNext = GenCfg
      ]_vars

\* Bounty.__init__ does not call generate on a generated config: the
\* bounty takes the fields of the config as they are (companion property)
ConstructKeepsGenerated ==
    [][(Construct /\ Val(args).config # None /\ GenCfg.generated /\ last'.exc = "none") =>
          /\ Val(bounty').checked = GenCfg.checked
          /\ Val(bounty').route = GenCfg.route
          /\ Val(bounty').answer = GenCfg.answer
          /\ Val(bounty').reward = GenCfg.reward
      ]_vars

\* C19: a generate call with noCriminal true and the registry checks on
\* ends: on a config without a faction it raises IndexError when no
\* faction has room, and on a config without a name it never retries for
\* ever, also when every name of the faction is active.
C19_GenerateTerminates ==
    [][\A fl \in GenCalls :
          (GenerateStep(fl) /\ fl[1] /\ ~fl[3] /\ GenCfg.name \notin DOMAIN bountyNames) =>
              /\ (/\ GenCfg.faction = ""
                  /\ \A f \in bountyFactions : ~factionCanMakeBounty(Val(args).owningDB, f))
                    => last'.exc = "IndexError"
              /\ GenCfg.name = "" => last'.exc # "hang"
      ]_vars

\* companion property: the capacity error is raised when the caller names
\* a full faction
FullFactionRaised ==
    [][\A fl \in GenCalls :
          (/\ GenerateStep(fl) /\ fl[1] /\ ~fl[3]
           /\ GenCfg.name \notin DOMAIN bountyNames
           /\ GenCfg.faction \in bountyFactions
           /\ ~factionCanMakeBounty(Val(args).owningDB, GenCfg.faction))
              => last'.exc = "IndexError"
      ]_vars

\* the fields a reconstruction has to preserve
SameSaved(b1, b2) ==
    /\ b1.route = b2.route
    /\ b1.answer = b2.answer
    /\ b1.checked = b2.checked
    /\ b1.reward = b2.reward
    /\ b1.issueTime = b2.issueTime
    /\ b1.endTime = b2.endTime
\* the state is right after a fromDict(toDict()) call that was given what
\* its dbReload asks for: dbReload true, or a registry with room
Reloaded ==
    /\ Live
    /\ last.op = "fromDict"
    /\ Val(last.flags).dbReload = Some(TRUE) \/ Val(last.flags).owningDB = Some(EmptyDB)

\* C20: for every bounty reached by generation and checks, and for every
\* dbReload given to fromDict or left to its default, fromDict(toDict())
\* returns a bounty with the same route, answer, checked-map, reward,
\* issueTime and endTime.
C20_RoundTrip ==
    Reloaded => (last.exc = "none" /\ SameSaved(Val(last.val), B))

\* companion property: with dbReload = True the reconstruction keeps the
\* saved fields
RoundTripOnReload ==
    (Reloaded /\ Val(last.flags).dbReload = Some(TRUE)) =>
        (last.exc = "none" /\ SameSaved(Val(last.val), B))

\* C21: Bounty.fromDict(bounty.toDict(), **kwargs) never consults the
\* registry: it never raises the capacity error IndexError nor the
\* duplicate-name error KeyError, and what it returns or raises is the
\* same for a registry with room and a registry without.
C21_ReloadSkipsRegistry ==
    (Live /\ last.op = "fromDict") =>
        /\ last.exc \notin {"IndexError", "KeyError"}
        /\ \A now \in Clock, tz \in TzOffsets :
              fromDict(toDict(B), [Val(last.flags) EXCEPT !.owningDB = Some(EmptyDB)], now, tz)
              = fromDict(toDict(B), [Val(last.flags) EXCEPT !.owningDB = Some(FullDB)], now, tz)

\* companion property: with dbReload = True the reconstruction does not
\* depend on the registry and raises nothing
ReloadSkipsRegistryOnReload ==
    (Live /\ last.op = "fromDict" /\ Val(last.flags).dbReload = Some(TRUE)) =>
        /\ last.exc = "none"
        /\ \A now \in Clock, tz \in TzOffsets :
              fromDict(toDict(B), [Val(last.flags) EXCEPT !.owningDB = Some(EmptyDB)], now, tz)
              = fromDict(toDict(B), [Val(last.flags) EXCEPT !.owningDB = Some(FullDB)], now, tz)

\* C23: whatever the order of the natural firing of a task and of the
\* cancel and forceExpire calls on it, those of Bounty.cancelRespawn and
\* Bounty.forceRespawn included, its expiry function runs at most once; a
\* call on a task that is already expired changes nothing of the task and
\* raises nothing.
C23_EffectAtMostOnce ==
    [][/\ \A t \in Tasks : ts'.runs[t] <= 1
       /\ \A t \in Tasks : ts.state[t] = "expired" =>
             (ts'.state[t] = "expired" /\ ts'.runs[t] = ts.runs[t])
       /\ last'.op = "forceExpire" => last'.exc = "none"
      ]_vars

\* a task that has run its expiry function was cancelled afterwards
C23_Witness ==
    /\ last.op = "forceExpire"
    /\ last.flags = Some(<<FALSE>>)
    /\ ts.state[last.task] = "expired"
    /\ ts.runs[last.task] = 1

\* C24: a generate call that raises has written no field of the config:
\* the config is as it was before the call.
C24_RaiseWritesNothing ==
    [][\A fl \in GenCalls :
          (GenerateStep(fl) /\ last'.exc \notin {"none", "hang"}) => GenCfgNext = GenCfg
      ]_vars

\* companion property: a generate call that raises leaves the checked dict
\* and the generated flag as they were
RaiseKeepsChecked ==
    [][\A fl \in GenCalls :
          (GenerateStep(fl) /\ last'.exc \notin {"none", "hang"}) =>
              /\ GenCfgNext.checked = GenCfg.checked
              /\ GenCfgNext.generated = GenCfg.generated
      ]_vars

\* the generate call of the step planned the route: none was supplied and
\* the call got as far as assigning the planner's result
PlannerCalled == GenCfg.route = << >> /\ GenCfgNext.route # << >>

\* C25: generate never calls the route planner with start equal to end:
\* whenever a call plans the route, start and end differ.
C25_PlannerEndsDiffer ==
    [][\A fl \in GenCalls :
          (GenerateStep(fl) /\ PlannerCalled) => GenCfgNext.start # GenCfgNext.end
      ]_vars

\* companion property: start and end differ whenever generate draws at
\* least one of them
PlannerEndsDifferWhenDrawn ==
    [][\A fl \in GenCalls :
          (GenerateStep(fl) /\ PlannerCalled /\ (GenCfg.start = "" \/ GenCfg.end = "")) =>
              GenCfgNext.start # GenCfgNext.end
      ]_vars

\* C27: after a generate call that returns: with forceKeepChecked false
\* every route location maps to the unchecked value -1, whatever checked
\* dict was supplied; with forceKeepChecked true every route location that
\* had an entry in the supplied dict keeps the value of that entry and
\* every other route location maps to -1.
C27_CheckedInitialised ==
    [][\A fl \in GenCalls :
          (GenerateStep(fl) /\ last'.exc = "none") =>
              \A i \in 1..Len(GenCfgNext.route) :
                  LET L == GenCfgNext.route[i] IN
                  /\ L \in DOMAIN GenCfgNext.checked
                  /\ GenCfgNext.checked[L] =
                        IF fl[2] /\ L \in DOMAIN GenCfg.checked
                        THEN GenCfg.checked[L]
                        ELSE Unchecked
      ]_vars

\* generate kept the recorded check of one route location and marked
\* another, which had no entry, as unchecked
C27_Witness ==
    /\ Generated
    /\ Val(last.flags)[2]
    /\ \E i, j \in 1..Len(GenCfg.route) :
          /\ GenCfg.checked[GenCfg.route[i]] \in Users
          /\ GenCfg.checked[GenCfg.route[j]] = Unchecked

\* the answer of the bounty has been found: it is on the route and checked
AnswerFound(b) == InList(b.answer, b.route) /\ b.checked[b.answer] # Unchecked

\* C28: the check that returns 3 (AnswerFound) attaches and removes no
\* respawn task and touches no task; afterwards the bounty still takes
\* checks: a check of an unchecked route location returns 2 and records the
\* checker, a check of the answer returns 1.
C28_ChecksAfterAnswer ==
    [][\A a \in CheckArgs : LET L == a[1]  u == a[2] IN
          /\ (CheckStep(L, u) /\ last'.ret = 3) =>
                /\ Val(bounty').respawnTT = B.respawnTT
                /\ ts' = ts
                /\ AnswerFound(Val(bounty'))
          /\ (CheckStep(L, u) /\ AnswerFound(B) /\ InList(L, B.route)) =>
                IF B.checked[L] = Unchecked
                THEN /\ last'.exc = "none" /\ last'.ret = 2
                     /\ Val(bounty').checked[L] = u
                ELSE /\ last'.exc = "none" /\ last'.ret = 1
                     /\ bounty' = bounty
      ]_vars

\* after the answer was found another route location was checked and
\* recorded for its checker
C28_Witness ==
    /\ Live
    /\ AnswerFound(B)
    /\ last.op = "check" /\ last.ret = 2
    /\ last.system # B.answer
    /\ B.checked[last.system] = last.user
    /\ B.checked[B.answer] \in Users \ {last.user}

\* C30: forceRespawn() on a bounty that was handed a respawn task (by the
\* preceding escape call) returns, and when it returns the task is no
\* longer armed (its expiry function has returned) and the bounty holds no
\* respawn task, whatever the expiry function attached.
C30_ForceRespawnClearsLast ==
    [][(last.op = "escape" /\ ForceRespawn) =>
          /\ last'.exc = "none"
          /\ ts'.state[last.task] # "armed"
          /\ Val(bounty').respawnTT = None
      ]_vars

(***************************************************************************)
(* CrateTool                                                               *)
(***************************************************************************)
\* the userFriendlyUse calls that have returned, and the items granted
Returned(c) == crate.calls[c].pc = "done" /\ crate.calls[c].exc = "none"
ItemsGranted == crate.inventory["laser"] + crate.inventory["shield"]

\* C26: CrateTool.userFriendlyUse returns a result string for every outcome
\* of its confirmation menu: reject, accept, and a confirmation holding
\* neither emoji
C26_AlwaysResultString ==
    \A c \in CrateCalls : Returned(c) => crate.calls[c].ret # None

\* companion property: a call whose menu came back with the accept or the
\* reject emoji, and that raised nothing, returned a result string
ResultStringWhenAnswered ==
    [][\A c \in CrateCalls, confirmation \in Confirmations \ {{}} :
          MenuDone(c, confirmation) /\ crate'.calls[c].exc = "none"
             => crate'.calls[c].ret # None]_vars

\* C29: under any interleaving of two userFriendlyUse calls on the same
\* crate of the same user, the crate is opened at most once: at most one
\* item is added to the user's inventory
C29_OpenedAtMostOnce == ItemsGranted <= 1

\* companion property: a call that opens a crate still held removes the
\* crate from the inactive tools, and grants exactly one item
OpenRemovesHeldCrate ==
    [][ItemsGranted' # ItemsGranted /\ crate.held
          => ~crate'.held /\ ItemsGranted' = ItemsGranted + 1]_vars

\* the contributors a rewards table marks as won
Winners(rewards) == {u \in DOMAIN rewards : rewards[u].won}

\* C32: over any sequence of check calls on one bounty, check returns 3
\* (AnswerFound) at most once: it does so only while the answer is
\* unchecked, and leaves it checked for good, by the same contributor.  In
\* every state calcRewards marks at most one contributor as won, the one
\* recorded in the checked-map for the answer, and none while the answer is
\* unchecked.
C32_SingleWinner ==
    /\ [][/\ \A a \in CheckArgs : LET L == a[1]  u == a[2] IN
               (CheckStep(L, u) /\ last'.ret = 3) =>
                   /\ ~AnswerFound(B)
                   /\ L = B.answer
                   /\ AnswerFound(Val(bounty'))
                   /\ Val(bounty').checked[B.answer] = u
          /\ (Live /\ AnswerFound(B)) =>
                /\ AnswerFound(Val(bounty'))
                /\ Val(bounty').checked[B.answer] = B.checked[B.answer]
         ]_vars
    /\ [](Live => Winners(calcRewards(B)) =
                      IF AnswerFound(B) THEN {B.checked[B.answer]} ELSE {})

\* the answer was found by one contributor after another contributor had
\* checked a different location, and a further check of the answer has
\* returned 1: the table holds both and marks the finder alone
C32_Witness ==
    /\ Live
    /\ AnswerFound(B)
    /\ last.op = "check" /\ last.system = B.answer /\ last.ret = 1
    /\ last.user # B.checked[B.answer]
    /\ Cardinality(DOMAIN calcRewards(B)) = 2
    /\ Winners(calcRewards(B)) = {B.checked[B.answer]}

(***************************************************************************)
(* Several bounties                                                        *)
(***************************************************************************)
BuiltBounty(i) == heap.bounties[i] # None
CheckedAt(i) == BountyAt(i).checked

\* C31: two distinct bounties never share a checked-map: a check on one
\* bounty leaves the checked-map of every other bounty unchanged, whether
\* they come from separately constructed configs or one is the
\* reconstruction fromDict(toDict(b)) of the other
C31_NoSharedChecked ==
    [][\A i, j \in BountyIds, system \in CheckSystems, userID \in Users :
          i # j /\ BuiltBounty(j) /\ CheckOn(i, system, userID)
             => CheckedAt(j)' = CheckedAt(j)]_vars

\* companion property: bounties whose configs were generated without
\* forceKeepChecked do not share a checked-map
NoSharedCheckedWhenFresh ==
    [][\A i, j \in BountyIds, system \in CheckSystems, userID \in Users :
          /\ i # j /\ BuiltBounty(i) /\ BuiltBounty(j)
          /\ ~Val(heap.bounties[i]).keep /\ ~Val(heap.bounties[j]).keep
          /\ CheckOn(i, system, userID)
          => CheckedAt(j)' = CheckedAt(j)]_vars

\* companion property: a dict held by two bounties was kept by
\* forceKeepChecked for at least one of them
SharedOnlyWhenKept ==
    \A i, j \in BountyIds :
        i # j /\ BuiltBounty(i) /\ BuiltBounty(j)
        /\ Val(heap.bounties[i]).ref = Val(heap.bounties[j]).ref
        => Val(heap.bounties[i]).keep \/ Val(heap.bounties[j]).keep

====
